---- MODULE Spec2Model ----
(***************************************************************************)
(* Model of zyxel (src/main.go, lines 1-240): a single-shot SSH command    *)
(* executor.  The foreground (func main) opens the transport, starts a     *)
(* reader goroutine that turns blocking reads of stdout into messages on   *)
(* readCh / errCh, waits for the prompt, writes the command, collects the  *)
(* response, prints the cleaned lines and writes "exit".                   *)
(*                                                                         *)
(* Text is modelled as a sequence of one-character strings.  Time is in    *)
(* milliseconds: each time.After channel is kept as the time left until it *)
(* is ready (0 = ready), and time.Since(lastRead) as the elapsed time,     *)
(* capped at SinceCap because the code only compares it with the limit.    *)
(* select chooses among its ready cases nondeterministically.              *)
(***************************************************************************)
EXTENDS Integers, Sequences, FiniteSets, TLC

VARIABLES
    pc,            \* position of func main
    exitCode,      \* process exit status: -1 while running
    outcome,       \* which fatal() message was printed, "none" otherwise
    clientOpen,    \* ssh client handle: "none", "open", "closed"
    sessionOpen,   \* ssh session handle: "none", "open", "closed"
    stdinW,        \* writes made to the session's stdin, in order
    printed,       \* lines printed on stdout, in order
    output,        \* strings.Builder output
    seenContent,   \* seenContent
    lines,         \* lines (after strings.Split and the slice)
    li,            \* index of the range loop over lines
    exitReason,    \* which branch left readLoop
    promptTimeout, \* time left until the promptTimeout channel is ready
    timeout,       \* time left until the timeout channel is ready
    sinceRead,     \* time.Since(lastRead)
    rpc,           \* position of the reader goroutine
    held,          \* chunk returned by stdout.Read, not yet sent
    readCh,        \* buffered channel readCh
    errCh,         \* buffered channel errCh
    done,          \* TRUE once done is closed
    produced,      \* history: results of stdout.Read, in order
    consumed,      \* history: messages received by main, in order
    readsAtCmd,    \* history: number of reads completed when the command was written
    paged          \* history: number of received chunks that took the pagination branch

vars == <<pc, exitCode, outcome, clientOpen, sessionOpen, stdinW, printed, output,
          seenContent, lines, li, exitReason, promptTimeout, timeout, sinceRead,
          rpc, held, readCh, errCh, done, produced, consumed, readsAtCmd, paged>>

fgVars == <<pc, exitCode, outcome, clientOpen, sessionOpen, stdinW, printed, output,
            seenContent, lines, li, exitReason, consumed, readsAtCmd, paged>>
timeVars == <<promptTimeout, timeout, sinceRead>>
readerVars == <<rpc, held, produced>>

----------------------------------------------------------------------------
(* Bounds *)

MaxReads == 3        \* successful stdout.Read calls the device answers
ReadChCap == 1       \* capacity of readCh, scaled down from make(chan string, 100)
MaxNormLen == 4      \* longest text handed to the clean-up in NormSpec

(* Program constants *)

ErrChCap == 1
PromptDeadline == 5000
CollectDeadline == 30000
IdleLimit == 500

NoTimer == 0 - 1

\* amounts by which the clock advances in one step
TickSteps == {IdleLimit, CollectDeadline}

NL == "\n"
CR == "\r"

\* the -c argument
Command == <<"c">>

\* what one stdout.Read may return
Chunks == { <<"a">>,
            <<"#", " ">>,
            <<"a", CR, NL>>,
            <<"M", "o", "r", "e">>,
            <<"m", "o", "r", "e", NL, "#">> }

----------------------------------------------------------------------------
(* strings *)

Min(a, b) == IF a < b THEN a ELSE b
Max(a, b) == IF a < b THEN b ELSE a

Contains(s, sub) ==
    \E i \in 0..(Len(s) - Len(sub)) : SubSeq(s, i + 1, i + Len(sub)) = sub

ToLowerChar(c) ==
    CASE c = "M" -> "m"
      [] c = "O" -> "o"
      [] c = "R" -> "r"
      [] c = "E" -> "e"
      [] c = "A" -> "a"
      [] OTHER -> c

ToLower(s) == [i \in 1..Len(s) |-> ToLowerChar(s[i])]

RECURSIVE TrimRight(_, _)
TrimRight(s, cutset) ==
    IF s # <<>> /\ s[Len(s)] \in cutset
    THEN TrimRight(SubSeq(s, 1, Len(s) - 1), cutset)
    ELSE s

HasSuffix(s, suf) ==
    Len(s) >= Len(suf) /\ SubSeq(s, Len(s) - Len(suf) + 1, Len(s)) = suf

\* position of the first sep in s, 0 if none
IndexOf(s, sep) ==
    IF \E i \in 1..Len(s) : s[i] = sep
    THEN CHOOSE i \in 1..Len(s) : s[i] = sep /\ \A j \in 1..(i - 1) : s[j] # sep
    ELSE 0

RECURSIVE Split(_, _)
Split(s, sep) ==
    IF IndexOf(s, sep) = 0
    THEN <<s>>
    ELSE <<SubSeq(s, 1, IndexOf(s, sep) - 1)>>
         \o Split(SubSeq(s, IndexOf(s, sep) + 1, Len(s)), sep)

\* variant: only the first line is dropped
SliceLinesKeepLast(ls) == IF Len(ls) > 2 THEN SubSeq(ls, 2, Len(ls)) ELSE ls

\* variant: the slice is taken from two lines on
SliceLinesFromTwo(ls) == IF Len(ls) >= 2 THEN SubSeq(ls, 2, Len(ls) - 1) ELSE ls

\* lines[1 : len(lines)-1] when len(lines) > 2
SliceLines(ls) == IF Len(ls) > 2 THEN SubSeq(ls, 2, Len(ls) - 1) ELSE ls

\* variant: one trailing carriage return is removed (strings.TrimSuffix)
CleanLineOnce(line) ==
    IF line # <<>> /\ line[Len(line)] = CR THEN SubSeq(line, 1, Len(line) - 1) ELSE line

\* strings.TrimRight(line, "\r")
CleanLine(line) == TrimRight(line, {CR})

\* variant: the prompt character is looked for at the end of the chunk only
HasPromptAtEnd(chunk) == HasSuffix(chunk, <<"#">>)

\* strings.Contains(chunk, "#")
HasPrompt(chunk) == Contains(chunk, <<"#">>)

\* variant: the banner is matched case-sensitively
IsPaginationCaseSensitive(chunk) == Contains(chunk, <<"m", "o", "r", "e">>)

\* strings.Contains(strings.ToLower(chunk), "more")
IsPagination(chunk) == Contains(ToLower(chunk), <<"m", "o", "r", "e">>)

\* variant: the accumulated text is not trimmed before the test
EndsWithPromptUntrimmed(out) == HasSuffix(out, <<"#">>)

\* strings.HasSuffix(strings.TrimRight(output.String(), " \r\n"), "#")
EndsWithPrompt(out) == HasSuffix(TrimRight(out, {" ", CR, NL}), <<"#">>)

\* variant: any received text counts as content
HasLineBreakOrText(chunk) == Len(chunk) > 0

\* strings.Contains(chunk, "\n")
HasLineBreak(chunk) == Contains(chunk, <<NL>>)

\* variant: the idle rule does not look at the output
IdleExpiredIgnoringOutput(since, out) == since > IdleLimit

\* time.Since(lastRead) > 500*time.Millisecond && output.Len() > 0
IdleExpired(since, out) == since > IdleLimit /\ Len(out) > 0

SinceCap == 2 * IdleLimit

\* a timer channel after d more milliseconds
TimerAfter(t, d) == IF t > 0 THEN Max(t - d, 0) ELSE t

\* variant: pagination banners are kept out of the output
WriteStringSkipBanner(out, chunk) == IF IsPagination(chunk) THEN out ELSE out \o chunk

\* output.WriteString(chunk)
WriteString(out, chunk) == out \o chunk

Data(c) == [kind |-> "data", text |-> c]
StreamErr == [kind |-> "err", text |-> <<>>]

ExitText == <<"e", "x", "i", "t", NL>>
SpaceText == <<" ">>
\* variant: the command is written without the newline
CommandLineNoNewline == Command

\* fmt.Fprintf(stdin, "%s\n", *command)
CommandLine == Command \o <<NL>>

----------------------------------------------------------------------------
(* initial state: flag parsing and environment checks have passed *)

Init ==
    /\ pc = "dial"
    /\ exitCode = -1
    /\ outcome = "none"
    /\ clientOpen = "none"
    /\ sessionOpen = "none"
    /\ stdinW = <<>>
    /\ printed = <<>>
    /\ output = <<>>
    /\ seenContent = FALSE
    /\ lines = <<>>
    /\ li = 0
    /\ exitReason = "none"
    /\ promptTimeout = NoTimer
    /\ timeout = NoTimer
    /\ sinceRead = 0
    /\ rpc = "notStarted"
    /\ held = <<>>
    /\ readCh = <<>>
    /\ errCh = <<>>
    /\ done = FALSE
    /\ produced = <<>>
    /\ consumed = <<>>
    /\ readsAtCmd = 0
    /\ paged = 0

----------------------------------------------------------------------------
(* func main *)

\* variant: the message is printed but a failed prompt wait does not end the process
FatalKeepsGoing(kind) ==
    /\ pc' = IF pc = "waitPrompt" THEN "sendCmd" ELSE "exited"
    /\ exitCode' = 1
    /\ outcome' = kind

\* fatal(): message on stderr, os.Exit(1); deferred calls do not run
Fatal(kind) ==
    /\ pc' = "exited"
    /\ exitCode' = 1
    /\ outcome' = kind

Dial ==
    /\ pc = "dial"
    /\ \E ok \in BOOLEAN :
         IF ok
         THEN /\ clientOpen' = "open"
              /\ pc' = "newSession"
              /\ UNCHANGED <<exitCode, outcome>>
         ELSE /\ Fatal("TransportFailure")
              /\ UNCHANGED clientOpen
    /\ UNCHANGED <<sessionOpen, stdinW, printed, output, seenContent, lines, li,
                   exitReason, consumed, readsAtCmd, paged>>
    /\ UNCHANGED <<timeVars, readerVars, readCh, errCh, done>>

NewSession ==
    /\ pc = "newSession"
    /\ \E ok \in BOOLEAN :
         IF ok
         THEN /\ sessionOpen' = "open"
              /\ pc' = "requestPty"
              /\ UNCHANGED <<exitCode, outcome>>
         ELSE /\ Fatal("TransportFailure")
              /\ UNCHANGED sessionOpen
    /\ UNCHANGED <<clientOpen, stdinW, printed, output, seenContent, lines, li,
                   exitReason, consumed, readsAtCmd, paged>>
    /\ UNCHANGED <<timeVars, readerVars, readCh, errCh, done>>

SetupAfter(p) ==
    CASE p = "requestPty" -> "stdinPipe"
      [] p = "stdinPipe" -> "stdoutPipe"
      [] p = "stdoutPipe" -> "shell"
      [] p = "shell" -> "start"

\* session.RequestPty, StdinPipe, StdoutPipe, Shell
SessionSetup ==
    /\ pc \in {"requestPty", "stdinPipe", "stdoutPipe", "shell"}
    /\ \E ok \in BOOLEAN :
         IF ok
         THEN /\ pc' = SetupAfter(pc)
              /\ UNCHANGED <<exitCode, outcome>>
         ELSE Fatal("TransportFailure")
    /\ UNCHANGED <<clientOpen, sessionOpen, stdinW, printed, output, seenContent,
                   lines, li, exitReason, consumed, readsAtCmd, paged>>
    /\ UNCHANGED <<timeVars, readerVars, readCh, errCh, done>>

\* channels made, goroutine started, promptTimeout armed
StartReader ==
    /\ pc = "start"
    /\ pc' = "waitPrompt"
    /\ rpc' = "select"
    /\ promptTimeout' = PromptDeadline
    /\ UNCHANGED <<exitCode, outcome, clientOpen, sessionOpen, stdinW, printed,
                   output, seenContent, lines, li, exitReason, consumed, readsAtCmd,
                   paged>>
    /\ UNCHANGED <<timeout, sinceRead, held, produced, readCh, errCh, done>>

\* variant: the prompt wait writes what it receives into output
PromptRecvAccumulates ==
    /\ pc = "waitPrompt"
    /\ readCh # <<>>
    /\ readCh' = Tail(readCh)
    /\ consumed' = Append(consumed, Data(Head(readCh)))
    /\ output' = output \o Head(readCh)
    /\ IF HasPrompt(Head(readCh))
       THEN pc' = "sendCmd" /\ promptTimeout' = NoTimer
       ELSE pc' = pc /\ promptTimeout' = promptTimeout
    /\ UNCHANGED <<exitCode, outcome, clientOpen, sessionOpen, stdinW, printed,
                   seenContent, lines, li, exitReason, readsAtCmd, paged>>
    /\ UNCHANGED <<timeout, sinceRead, readerVars, errCh, done>>

\* waitPrompt: case chunk := <-readCh
PromptRecv ==
    /\ pc = "waitPrompt"
    /\ readCh # <<>>
    /\ readCh' = Tail(readCh)
    /\ consumed' = Append(consumed, Data(Head(readCh)))
    /\ IF HasPrompt(Head(readCh))
       THEN pc' = "sendCmd" /\ promptTimeout' = NoTimer
       ELSE pc' = pc /\ promptTimeout' = promptTimeout
    /\ UNCHANGED <<exitCode, outcome, clientOpen, sessionOpen, stdinW, printed,
                   output, seenContent, lines, li, exitReason, readsAtCmd, paged>>
    /\ UNCHANGED <<timeout, sinceRead, readerVars, errCh, done>>

\* waitPrompt: case <-promptTimeout
PromptTimedOut ==
    /\ pc = "waitPrompt"
    /\ promptTimeout = 0
    /\ done' = TRUE
    /\ Fatal("PromptTimeout")
    /\ UNCHANGED <<clientOpen, sessionOpen, stdinW, printed, output, seenContent,
                   lines, li, exitReason, consumed, readsAtCmd, paged>>
    /\ UNCHANGED <<timeVars, readerVars, readCh, errCh>>

\* waitPrompt: case <-errCh
PromptErr ==
    /\ pc = "waitPrompt"
    /\ errCh # <<>>
    /\ errCh' = Tail(errCh)
    /\ consumed' = Append(consumed, StreamErr)
    /\ done' = TRUE
    /\ Fatal("ConnectionClosed")
    /\ UNCHANGED <<clientOpen, sessionOpen, stdinW, printed, output, seenContent,
                   lines, li, exitReason, readsAtCmd, paged>>
    /\ UNCHANGED <<timeVars, readerVars, readCh>>

\* fmt.Fprintf(stdin, "%s\n", *command); output, timeout, lastRead, seenContent set up
SendCommand ==
    /\ pc = "sendCmd"
    /\ stdinW' = Append(stdinW, CommandLine)
    /\ output' = <<>>
    /\ timeout' = CollectDeadline
    /\ sinceRead' = 0
    /\ seenContent' = FALSE
    /\ readsAtCmd' = Len(produced)
    /\ pc' = "readLoop"
    /\ UNCHANGED <<exitCode, outcome, clientOpen, sessionOpen, printed, lines, li,
                   exitReason, consumed, paged>>
    /\ UNCHANGED <<promptTimeout, readerVars, readCh, errCh, done>>

\* break readLoop: the timers and lastRead are not used again
LeaveLoop(reason) ==
    /\ pc' = "closeDone"
    /\ exitReason' = reason
    /\ timeout' = NoTimer
    /\ sinceRead' = 0

\* readLoop: case chunk := <-readCh
CollectRecv ==
    /\ pc = "readLoop"
    /\ readCh # <<>>
    /\ readCh' = Tail(readCh)
    /\ consumed' = Append(consumed, Data(Head(readCh)))
    /\ output' = WriteString(output, Head(readCh))
    /\ IF IsPagination(Head(readCh))
       THEN /\ stdinW' = Append(stdinW, SpaceText)
            /\ paged' = paged + 1
            /\ sinceRead' = 0
            /\ UNCHANGED <<pc, exitReason, timeout, seenContent>>
       ELSE /\ seenContent' = (seenContent \/ HasLineBreak(Head(readCh)))
            /\ IF seenContent' /\ EndsWithPrompt(output')
               THEN LeaveLoop("terminator")
               ELSE /\ sinceRead' = 0
                    /\ UNCHANGED <<pc, exitReason, timeout>>
            /\ UNCHANGED <<stdinW, paged>>
    /\ UNCHANGED <<exitCode, outcome, clientOpen, sessionOpen, printed, lines, li,
                   readsAtCmd>>
    /\ UNCHANGED <<promptTimeout, readerVars, errCh, done>>

\* variant: a stream error during collection is fatal, as in the prompt wait
CollectErrFatal ==
    /\ pc = "readLoop"
    /\ errCh # <<>>
    /\ errCh' = Tail(errCh)
    /\ consumed' = Append(consumed, StreamErr)
    /\ done' = TRUE
    /\ exitReason' = "streamEnd"
    /\ Fatal("ConnectionClosed")
    /\ UNCHANGED <<clientOpen, sessionOpen, stdinW, printed, output, seenContent,
                   lines, li, readsAtCmd, paged>>
    /\ UNCHANGED <<timeVars, readerVars, readCh>>

\* readLoop: case <-errCh
CollectErr ==
    /\ pc = "readLoop"
    /\ errCh # <<>>
    /\ errCh' = Tail(errCh)
    /\ consumed' = Append(consumed, StreamErr)
    /\ LeaveLoop("streamEnd")
    /\ UNCHANGED <<exitCode, outcome, clientOpen, sessionOpen, stdinW, printed,
                   output, seenContent, lines, li, readsAtCmd, paged>>
    /\ UNCHANGED <<promptTimeout, readerVars, readCh, done>>

\* variant: the fired timer is received but the loop goes on
CollectTimeoutContinues ==
    /\ pc = "readLoop"
    /\ timeout = 0
    /\ timeout' = NoTimer
    /\ UNCHANGED <<pc, exitReason, sinceRead>>
    /\ UNCHANGED <<exitCode, outcome, clientOpen, sessionOpen, stdinW, printed,
                   output, seenContent, lines, li, consumed, readsAtCmd, paged>>
    /\ UNCHANGED <<promptTimeout, readerVars, readCh, errCh, done>>

\* readLoop: case <-timeout
CollectTimeout ==
    /\ pc = "readLoop"
    /\ timeout = 0
    /\ LeaveLoop("deadline")
    /\ UNCHANGED <<exitCode, outcome, clientOpen, sessionOpen, stdinW, printed,
                   output, seenContent, lines, li, consumed, readsAtCmd, paged>>
    /\ UNCHANGED <<promptTimeout, readerVars, readCh, errCh, done>>

\* readLoop: default, taken only when no case is ready.  When the idle test
\* fails main sleeps 10 ms and polls again; the sleep is shorter than any
\* step of the clock, so the time it takes passes through Tick.
CollectDefault ==
    /\ pc = "readLoop"
    /\ readCh = <<>>
    /\ errCh = <<>>
    /\ timeout > 0
    /\ IF IdleExpired(sinceRead, output)
       THEN LeaveLoop("idle")
       ELSE UNCHANGED <<pc, exitReason, timeout, sinceRead>>
    /\ UNCHANGED <<exitCode, outcome, clientOpen, sessionOpen, stdinW, printed,
                   output, seenContent, lines, li, consumed, readsAtCmd, paged>>
    /\ UNCHANGED <<promptTimeout, readerVars, readCh, errCh, done>>

\* close(done)
CloseDone ==
    /\ pc = "closeDone"
    /\ done' = TRUE
    /\ pc' = "split"
    /\ UNCHANGED <<exitCode, outcome, clientOpen, sessionOpen, stdinW, printed,
                   output, seenContent, lines, li, exitReason, consumed, readsAtCmd,
                   paged>>
    /\ UNCHANGED <<timeVars, readerVars, readCh, errCh>>

\* result := output.String(); lines := strings.Split(result, "\n"); the slice
SplitLines ==
    /\ pc = "split"
    /\ lines' = SliceLines(Split(output, NL))
    /\ li' = 1
    /\ pc' = "emit"
    /\ UNCHANGED <<exitCode, outcome, clientOpen, sessionOpen, stdinW, printed,
                   output, seenContent, exitReason, consumed, readsAtCmd, paged>>
    /\ UNCHANGED <<timeVars, readerVars, readCh, errCh, done>>

\* one iteration of: for _, line := range lines
EmitLine ==
    /\ pc = "emit"
    /\ li <= Len(lines)
    /\ printed' = IF CleanLine(lines[li]) # <<>>
                  THEN Append(printed, CleanLine(lines[li]))
                  ELSE printed
    /\ li' = li + 1
    /\ UNCHANGED <<pc, exitCode, outcome, clientOpen, sessionOpen, stdinW, output,
                   seenContent, lines, exitReason, consumed, readsAtCmd, paged>>
    /\ UNCHANGED <<timeVars, readerVars, readCh, errCh, done>>

\* variant: "exit" is sent only when the prompt came back
WriteExitOnPromptOnly ==
    /\ pc = "emit"
    /\ li > Len(lines)
    /\ stdinW' = IF exitReason = "terminator" THEN Append(stdinW, ExitText) ELSE stdinW
    /\ pc' = "return"
    /\ UNCHANGED <<exitCode, outcome, clientOpen, sessionOpen, printed, output,
                   seenContent, lines, li, exitReason, consumed, readsAtCmd, paged>>
    /\ UNCHANGED <<timeVars, readerVars, readCh, errCh, done>>

\* fmt.Fprintf(stdin, "exit\n")
WriteExit ==
    /\ pc = "emit"
    /\ li > Len(lines)
    /\ stdinW' = Append(stdinW, ExitText)
    /\ pc' = "return"
    /\ UNCHANGED <<exitCode, outcome, clientOpen, sessionOpen, printed, output,
                   seenContent, lines, li, exitReason, consumed, readsAtCmd, paged>>
    /\ UNCHANGED <<timeVars, readerVars, readCh, errCh, done>>

\* main returns: deferred session.Close() and client.Close() run, exit status 0
Return ==
    /\ pc = "return"
    /\ sessionOpen' = "closed"
    /\ clientOpen' = "closed"
    /\ exitCode' = 0
    /\ pc' = "exited"
    /\ UNCHANGED <<outcome, stdinW, printed, output, seenContent, lines, li,
                   exitReason, consumed, readsAtCmd, paged>>
    /\ UNCHANGED <<timeVars, readerVars, readCh, errCh, done>>

----------------------------------------------------------------------------
(* the reader goroutine *)

ReaderRunning == rpc \notin {"notStarted", "exited"} /\ pc # "exited"

DataReads(hist) == Len(SelectSeq(hist, LAMBDA m : m.kind = "data"))

\* select { case <-done: return; default: ... }
ReaderSelect ==
    /\ ReaderRunning
    /\ rpc = "select"
    /\ rpc' = IF done THEN "exited" ELSE "read"
    /\ UNCHANGED <<fgVars, timeVars, held, produced, readCh, errCh, done>>

\* stdout.Read returns n bytes
ReaderReadData ==
    /\ ReaderRunning
    /\ rpc = "read"
    /\ DataReads(produced) < MaxReads
    /\ \E c \in Chunks :
         /\ held' = c
         /\ produced' = Append(produced, Data(c))
    /\ rpc' = "send"
    /\ UNCHANGED <<fgVars, timeVars, readCh, errCh, done>>

\* variant: the goroutine goes round the loop again after a failed read
ReaderReadErrNoReturn ==
    /\ ReaderRunning
    /\ rpc = "read"
    /\ produced' = Append(produced, StreamErr)
    /\ errCh' = IF Len(errCh) < ErrChCap THEN Append(errCh, StreamErr) ELSE errCh
    /\ rpc' = "select"
    /\ UNCHANGED <<fgVars, timeVars, held, readCh, done>>

\* stdout.Read returns an error: non-blocking send on errCh, return
ReaderReadErr ==
    /\ ReaderRunning
    /\ rpc = "read"
    /\ produced' = Append(produced, StreamErr)
    /\ errCh' = IF Len(errCh) < ErrChCap THEN Append(errCh, StreamErr) ELSE errCh
    /\ rpc' = "exited"
    /\ UNCHANGED <<fgVars, timeVars, held, readCh, done>>

\* readCh <- string(buf[:n]), blocking while readCh is full
ReaderSend ==
    /\ ReaderRunning
    /\ rpc = "send"
    /\ Len(readCh) < ReadChCap
    /\ readCh' = Append(readCh, held)
    /\ held' = <<>>
    /\ rpc' = "select"
    /\ UNCHANGED <<fgVars, timeVars, produced, errCh, done>>

----------------------------------------------------------------------------
(* Passage of time while main waits for the prompt or collects.  A step is *)
(* taken only when it changes what the code can observe: the idle clock    *)
(* below its cap, or a timer channel becoming ready.                       *)

Tick ==
    /\ pc \in {"waitPrompt", "readLoop"}
    /\ \E d \in TickSteps :
         /\ promptTimeout' = TimerAfter(promptTimeout, d)
         /\ timeout' = TimerAfter(timeout, d)
         /\ sinceRead' = IF pc = "readLoop" THEN Min(sinceRead + d, SinceCap)
                         ELSE sinceRead
    /\ \/ sinceRead' # sinceRead
       \/ promptTimeout > 0 /\ promptTimeout' = 0
       \/ timeout > 0 /\ timeout' = 0
    /\ UNCHANGED <<fgVars, readerVars, readCh, errCh, done>>

----------------------------------------------------------------------------

Next ==
    \/ Dial
    \/ NewSession
    \/ SessionSetup
    \/ StartReader
    \/ PromptRecv
    \/ PromptTimedOut
    \/ PromptErr
    \/ SendCommand
    \/ CollectRecv
    \/ CollectErr
    \/ CollectTimeout
    \/ CollectDefault
    \/ CloseDone
    \/ SplitLines
    \/ EmitLine
    \/ WriteExit
    \/ Return
    \/ ReaderSelect
    \/ ReaderReadData
    \/ ReaderReadErr
    \/ ReaderSend
    \/ Tick

Spec == Init /\ [][Next]_vars

\* main keeps running, its select picks every case that stays ready, and time
\* keeps passing
FairSpec ==
    /\ Spec
    /\ WF_vars(Tick)
    /\ WF_vars(CollectRecv)
    /\ WF_vars(CollectErr)
    /\ WF_vars(CollectTimeout)
    /\ WF_vars(CollectDefault)

----------------------------------------------------------------------------
(* The clean-up (lines 225-239) on its own: main has left readLoop on the  *)
(* deadline or the terminator after receiving the prompt and one chunk     *)
(* holding the whole response.                                             *)

NormAlphabet == {"a", "#", CR, NL}

VlanExample ==
    <<"s", "h", "o", "w", " ", "v", "l", "a", "n", CR, NL, "V", "L", "A",
      "N", " ", "1", " ", "A", "c", "t", "i", "v", "e", CR, NL, "V", "L",
      "A", "N", " ", "2", " ", "A", "c", "t", "i", "v", "e", CR, NL, "S",
      "w", "i", "t", "c", "h", "#">>

VlanLine1 ==
    <<"V", "L", "A", "N", " ", "1", " ", "A", "c", "t", "i", "v", "e">>

VlanLine2 ==
    <<"V", "L", "A", "N", " ", "2", " ", "A", "c", "t", "i", "v", "e">>

NormInputs ==
    UNION {[1..n -> NormAlphabet] : n \in 0..MaxNormLen} \cup {VlanExample}

NormInit ==
    /\ pc = "split"
    /\ exitCode = -1
    /\ outcome = "none"
    /\ clientOpen = "open"
    /\ sessionOpen = "open"
    /\ output \in NormInputs
    /\ seenContent = Contains(output, <<NL>>)
    /\ exitReason = IF seenContent /\ EndsWithPrompt(output)
                    THEN "terminator" ELSE "deadline"
    /\ stdinW = <<CommandLine>>
    /\ printed = <<>>
    /\ lines = <<>>
    /\ li = 0
    /\ promptTimeout = NoTimer
    /\ timeout = NoTimer
    /\ sinceRead = 0
    /\ rpc = "read"
    /\ held = <<>>
    /\ readCh = <<>>
    /\ errCh = <<>>
    /\ done = TRUE
    /\ produced = <<Data(<<"#", " ">>), Data(output)>>
    /\ consumed = produced
    /\ readsAtCmd = 1
    /\ paged = 0

NormNext ==
    \/ SplitLines
    \/ EmitLine
    \/ WriteExit
    \/ Return

NormSpec == NormInit /\ [][NormNext]_vars

----------------------------------------------------------------------------
(* Vocabulary of the properties, stated without the operators above *)

HasChar(s, ch) == \E i \in 1..Len(s) : s[i] = ch

IsPrefix(s, t) == Len(s) <= Len(t) /\ SubSeq(t, 1, Len(s)) = s

Last(s) == s[Len(s)]

Count(s, x) == Cardinality({i \in 1..Len(s) : s[i] = x})

\* the step is a receive of a chunk by main
ReceivedChunk ==
    /\ Len(consumed') = Len(consumed) + 1
    /\ Last(consumed').kind = "data"

\* "more" in any mix of cases
MoreBanner(c) ==
    \E i \in 1..(Len(c) - 3) :
        /\ c[i] \in {"m", "M"}
        /\ c[i + 1] \in {"o", "O"}
        /\ c[i + 2] \in {"r", "R"}
        /\ c[i + 3] \in {"e", "E"}

\* the cleaned, non-empty ones among ls, in order
NonEmptyCleaned(ls) ==
    SelectSeq([i \in 1..Len(ls) |-> CleanLine(ls[i])], LAMBDA l : l # <<>>)

CleanupDone == pc \in {"return", "exited"} /\ exitReason # "none"

----------------------------------------------------------------------------
\* C1: main receives the reader's results in the order the reader produced
\* them: the chunks in the order they were read, and the stream error only
\* after every chunk read before it.
C1_SignalsInProductionOrder == IsPrefix(consumed, produced)

\* C2: the prompt wait ends in success exactly on a received chunk that
\* contains '#', whatever else the chunk holds; it ends in PromptTimeout only
\* when the 5 s timer has fired and no received chunk contained '#', and with
\* the timer fired and nothing else pending it cannot end any other way.
C2_PromptWait ==
    [][ /\ (pc = "waitPrompt" /\ ReceivedChunk)
            => (pc' = "sendCmd" <=> HasChar(Last(consumed').text, "#"))
        /\ (pc = "waitPrompt" /\ pc' = "sendCmd") => ReceivedChunk
        /\ (outcome # "PromptTimeout" /\ outcome' = "PromptTimeout")
            => /\ promptTimeout = 0
               /\ \A i \in 1..Len(consumed) : ~HasChar(consumed[i].text, "#")
        /\ (pc = "waitPrompt" /\ promptTimeout = 0 /\ readCh = <<>> /\ errCh = <<>>
                /\ fgVars' # fgVars)
            => outcome' = "PromptTimeout"
      ]_vars

C2_Witness ==
    /\ pc = "sendCmd"
    /\ Len(consumed) = 2
    /\ ~HasChar(consumed[1].text, "#")
    /\ consumed[2].text = <<"#", " ">>

\* C3: when the process has ended, the ssh client and session it opened have
\* been closed.
C3_TeardownOnEveryPath ==
    pc = "exited" => (clientOpen # "open" /\ sessionOpen # "open")

\* C4: after a PromptTimeout or ConnectionClosed failure nothing was written
\* to stdin, collection never ran, nothing was printed and the exit status
\* is a failure.
C4_PromptFailureAborts ==
    outcome \in {"PromptTimeout", "ConnectionClosed"}
        => /\ pc = "exited"
           /\ exitCode = 1
           /\ stdinW = <<>>
           /\ exitReason = "none"
           /\ output = <<>>
           /\ lines = <<>>
           /\ printed = <<>>

C4_Witness ==
    /\ outcome = "PromptTimeout"
    /\ Len(consumed) >= 1
    /\ pc = "exited"

\* C5: whichever branch left readLoop, "exit\n" is written to stdin exactly
\* once, after the loop over the lines has finished, and it is the last
\* write; before that point it has not been written.
C5_ExitWrittenOnceLast ==
    /\ CleanupDone
        => /\ Count(stdinW, ExitText) = 1
           /\ Last(stdinW) = ExitText
           /\ li = Len(lines) + 1
    /\ pc \notin {"return", "exited"} => Count(stdinW, ExitText) = 0

C5_Witness ==
    /\ pc = "exited"
    /\ exitReason = "streamEnd"
    /\ paged >= 1
    /\ printed # <<>>

\* C6: a chunk received in readLoop whose lower-case form contains "more"
\* makes main write exactly one space and stay in the loop; a chunk without
\* it makes main write nothing.
C6_Pagination ==
    [][ (pc = "readLoop" /\ ReceivedChunk)
          => IF MoreBanner(Last(consumed').text)
             THEN /\ stdinW' = Append(stdinW, <<" ">>)
                  /\ pc' = "readLoop"
                  /\ exitReason' = "none"
             ELSE stdinW' = stdinW
      ]_vars

C6_Witness ==
    /\ pc = "readLoop"
    /\ seenContent
    /\ consumed # <<>>
    /\ Last(consumed) = Data(<<"m", "o", "r", "e", NL, "#">>)
    /\ Last(output) = "#"
    /\ Last(stdinW) = <<" ">>

\* C7: when readLoop was left on the stream error or on the 30 s timer, the
\* accumulated output is cleaned and printed like any other and the process
\* ends with status 0 and no error message.
C7_SoftExit ==
    (pc = "exited" /\ exitReason \in {"streamEnd", "deadline"})
        => /\ exitCode = 0
           /\ outcome = "none"
           /\ printed = NonEmptyCleaned(SliceLines(Split(output, NL)))

C7_Witness ==
    /\ pc = "exited"
    /\ exitReason = "deadline"
    /\ printed # <<>>
    /\ ~HasChar(output, "#")

\* C8: readLoop is left by the idle rule only when no channel is ready, more
\* than 500 ms have passed since the last chunk (or the start) and output is
\* not empty; and in that situation the next step of main is that exit.
C8_IdleExit ==
    [][ /\ (exitReason = "none" /\ exitReason' = "idle")
            => /\ readCh = <<>>
               /\ errCh = <<>>
               /\ timeout > 0
               /\ sinceRead > 500
               /\ output # <<>>
        /\ (pc = "readLoop" /\ readCh = <<>> /\ errCh = <<>> /\ timeout > 0
                /\ sinceRead > 500 /\ output # <<>> /\ fgVars' # fgVars)
            => exitReason' = "idle"
      ]_vars

C8_Witness ==
    /\ exitReason = "idle"
    /\ Len(consumed) = 2
    /\ output # <<>>
    /\ ~HasChar(output, "#")

\* C9: when the accumulated output splits into more than two lines, what is
\* printed is the non-empty cleaned lines strictly between the first and the
\* last, in order; the "show vlan" transcript prints its two VLAN lines.
C9_DropsFirstAndLast ==
    (CleanupDone /\ Len(Split(output, NL)) > 2)
        => /\ printed = NonEmptyCleaned(
                            SubSeq(Split(output, NL), 2, Len(Split(output, NL)) - 1))
           /\ output = VlanExample => printed = <<VlanLine1, VlanLine2>>

C9_Witness ==
    /\ CleanupDone
    /\ output = VlanExample
    /\ printed = <<VlanLine1, VlanLine2>>

\* C10: when the accumulated output splits into one or two lines, no line is
\* dropped: every line is kept for printing, the first and the last included.
C10_ShortOutputKept ==
    (pc \in {"emit", "return", "exited"} /\ exitReason # "none"
        /\ Len(Split(output, NL)) <= 2)
        => /\ lines = Split(output, NL)
           /\ CleanupDone => printed = NonEmptyCleaned(Split(output, NL))

C10_Witness ==
    /\ CleanupDone
    /\ Len(Split(output, NL)) = 2
    /\ Len(printed) = 2
    /\ printed[2] = <<"#">>


\* line without one trailing carriage return, if it has one
StripOneCR(l) == IF l # <<>> /\ l[Len(l)] = CR THEN SubSeq(l, 1, Len(l) - 1) ELSE l

\* line without its whole run of trailing carriage returns
StripAllCR(l) ==
    SubSeq(l, 1, Cardinality({k \in 1..Len(l) : \E j \in k..Len(l) : l[j] # CR}))

\* the first n of ls after cleaning with f, the empty ones left out
PrintedOf(f(_), ls, n) ==
    SelectSeq([i \in 1..n |-> f(ls[i])], LAMBDA l : l # <<>>)

\* C11 as stated: each line loses a single trailing carriage return (a line
\* ending in two keeps one) and is suppressed only if empty after that.
C11_SingleCRStripped ==
    CleanupDone => printed = PrintedOf(StripOneCR, lines, Len(lines))

\* C11 amended: each line loses every trailing carriage return and is
\* suppressed only if empty after that, at every point of the loop.
C11_AllTrailingCRStripped ==
    (pc \in {"emit", "return", "exited"} /\ exitReason # "none")
        => printed = PrintedOf(StripAllCR, lines, li - 1)

C11_Witness ==
    /\ CleanupDone
    /\ output = <<"a", CR, CR>>
    /\ printed = << <<"a">> >>


\* C12: once done is closed the reader puts nothing more on readCh or errCh,
\* also when a read that was blocked at that moment returns.
C12_NoSignalAfterCancel ==
    [][ done => (Len(readCh') <= Len(readCh) /\ Len(errCh') <= Len(errCh)) ]_vars

\* C13: while the process lives, the reader is never blocked sending on a
\* full readCh after done was closed (main receives nothing after that, so
\* such a send can never complete).
C13_ReaderNotStuckOnFullQueue ==
    ~(done /\ pc # "exited" /\ rpc = "send" /\ Len(readCh) = ReadChCap)


ReadFailed == produced # <<>> /\ Last(produced).kind = "err"

\* C14: a failed read is recorded at most once and is the reader's last act:
\* the goroutine has returned holding nothing, and from then on no read is
\* made and nothing is put on readCh or errCh.
C14_StreamErrorTerminal ==
    /\ [](/\ \A i \in 1..Len(produced) :
                produced[i].kind = "err" => i = Len(produced)
          /\ Len(errCh) <= 1
          /\ ReadFailed => (rpc = "exited" /\ held = <<>>))
    /\ [][ ReadFailed => /\ produced' = produced
                         /\ Len(readCh') <= Len(readCh)
                         /\ Len(errCh') <= Len(errCh) ]_vars

C14_Witness ==
    /\ ReadFailed
    /\ Len(produced) >= 3
    /\ pc = "readLoop"
    /\ readCh # <<>>
    /\ errCh # <<>>


\* main is in readLoop or has left it
InCollection == pc = "readLoop" \/ exitReason # "none"

\* position in consumed of the chunk that ended the prompt wait
PromptAt ==
    CHOOSE i \in 1..Len(consumed) :
        /\ HasChar(consumed[i].text, "#")
        /\ \A j \in 1..(i - 1) : ~HasChar(consumed[j].text, "#")

\* the chunks received in readLoop so far, in order
Collected ==
    SelectSeq(SubSeq(consumed, PromptAt + 1, Len(consumed)),
              LAMBDA m : m.kind = "data")

\* C15 as stated: seenContent is true exactly when some chunk received in
\* readLoop contained a line break, pagination chunks included.
C15_SeenContentAnyChunk ==
    InCollection
        => (seenContent <=> \E i \in 1..Len(Collected) : HasChar(Collected[i].text, NL))

\* C15 amended: seenContent is false when readLoop starts and is true exactly
\* when some chunk received in readLoop that did not take the pagination
\* branch contained a line break.
C15_SeenContentNonPagination ==
    /\ pc = "sendCmd" => ~seenContent
    /\ InCollection
        => (seenContent <=> \E i \in 1..Len(Collected) :
                                /\ HasChar(Collected[i].text, NL)
                                /\ ~MoreBanner(Collected[i].text))

C15_Witness ==
    /\ pc = "readLoop"
    /\ ~seenContent
    /\ Len(Collected) >= 1
    /\ HasChar(Collected[1].text, NL)


\* the last character of s that is not a space, CR or LF is '#'
EndsInHash(s) ==
    \E k \in 1..Len(s) :
        /\ s[k] = "#"
        /\ \A j \in (k + 1)..Len(s) : s[j] \in {" ", CR, NL}

\* C16: readLoop is left through the completion check only on a received
\* non-pagination chunk with seenContent true and the trimmed output ending
\* in '#'; and every received non-pagination chunk that leaves both true
\* ends the loop in that step.  Without seenContent a text ending in '#'
\* keeps the loop going.
C16_TerminatorExit ==
    [][ /\ (exitReason = "none" /\ exitReason' = "terminator")
            => /\ pc = "readLoop"
               /\ ReceivedChunk
               /\ ~MoreBanner(Last(consumed').text)
               /\ seenContent'
               /\ EndsInHash(output')
        /\ (pc = "readLoop" /\ ReceivedChunk /\ ~MoreBanner(Last(consumed').text))
            => ((seenContent' /\ EndsInHash(output')) <=> exitReason' = "terminator")
      ]_vars

C16_Witness ==
    /\ exitReason = "terminator"
    /\ Len(Collected) = 2
    /\ Collected[2].text = <<"#", " ">>
    /\ Last(output) = " "


RECURSIVE ConcatTexts(_)
ConcatTexts(ms) ==
    IF ms = <<>> THEN <<>> ELSE Head(ms).text \o ConcatTexts(Tail(ms))

\* C17: from the start of readLoop to the end of the process, output is the
\* concatenation, in the order received, of every chunk received in
\* readLoop, pagination banners included; each receive appends exactly its
\* chunk, and the lines are split from that same text.
C17_OutputIsConcatenation ==
    /\ [](InCollection => output = ConcatTexts(Collected))
    /\ [](pc \in {"emit", "return", "exited"} /\ exitReason # "none"
            => lines = SliceLines(Split(ConcatTexts(Collected), NL)))
    /\ [][ (pc = "readLoop" /\ ReceivedChunk)
             => output' = output \o Last(consumed').text ]_vars

C17_Witness ==
    /\ pc = "emit"
    /\ Len(Collected) = 2
    /\ MoreBanner(Collected[1].text)
    /\ ~MoreBanner(Collected[2].text)
    /\ Len(output) = Len(Collected[1].text) + Len(Collected[2].text)


\* successful reads completed when the command was written
DataReadsAtCmd ==
    Cardinality({i \in 1..readsAtCmd : produced[i].kind = "data"})

\* C18 as stated: every chunk in output was read from stdout after the
\* command was written (the k-th chunk received is the k-th chunk read).
C18_OnlyReadsAfterCommand ==
    InCollection
        => \A k \in 1..Len(Collected) : PromptAt + k > DataReadsAtCmd

\* C18 amended: output is empty until readLoop, and it grows only by a chunk
\* that main receives in readLoop, after the command was written; what the
\* prompt wait received is never in it.  (A chunk read earlier but still
\* queued when the prompt wait ended is received in readLoop and kept.)
C18_OnlyReceivedAfterCommand ==
    /\ [](~InCollection => output = <<>>)
    /\ [][ output' # output
             => /\ pc = "readLoop"
                /\ stdinW # <<>>
                /\ stdinW[1] = <<"c", NL>>
                /\ ReceivedChunk
                /\ output' = output \o Last(consumed').text ]_vars

C18_Witness ==
    /\ pc = "readLoop"
    /\ Len(Collected) >= 1
    /\ PromptAt + 1 <= DataReadsAtCmd
    /\ output = Collected[1].text


\* number of chunks received in readLoop that contain "more" in any case
BannersReceived ==
    Cardinality({i \in 1..Len(Collected) : MoreBanner(Collected[i].text)})

\* C19: nothing is written to stdin before the prompt wait has succeeded;
\* from then on the writes are the command with its newline, then one
\* space per pagination chunk received so far, then "exit\n" once the
\* clean-up is over.
C19_WriteOrder ==
    /\ ~InCollection => stdinW = <<>>
    /\ InCollection
        => stdinW = <<Command \o <<NL>>>>
                    \o [i \in 1..BannersReceived |-> <<" ">>]
                    \o (IF CleanupDone THEN <<ExitText>> ELSE <<>>)

C19_Witness ==
    /\ pc = "exited"
    /\ exitReason # "none"
    /\ BannersReceived = 2
    /\ Len(stdinW) = 4


====
